---- MODULE Spec2Model ----
(***************************************************************************)
(* A model of dmarc_report_generator.py: SPF include resolution            *)
(* (resolve_spf_includes and its helpers), the address sampler             *)
(* (pick_ip_from_networks), the report synthesizer (generate_dmarc_xml)    *)
(* and the driver (main, build_pools, run_once, run_hourly).               *)
(*                                                                         *)
(* Strings are kept as the pieces the code cuts them into: a TXT record is *)
(* its first whitespace-separated word (head) and the words after it, and  *)
(* a word is the mechanism prefix it starts with and the text after the    *)
(* prefix.  Addresses are integers of a scaled-down width (V4Bits, V6Bits) *)
(* so that the arithmetic of the sampler can be enumerated.                *)
(***************************************************************************)
EXTENDS Integers, Sequences, FiniteSets, TLC

VARIABLES
    \* ---- the DNS the program sees, fixed for a run
    zone,        \* name -> the answer of a TXT query: [err, rrs]
    \* ---- resolve_spf_includes: arguments, locals, position
    includes,    \* the argument `includes`
    max_depth,   \* the argument `max_depth`
    order,       \* which entry `stack.pop()` takes: "LIFO" (the code) or "ANY"
    stack,       \* the local `stack`: a sequence of [dom, depth]
    visited,     \* the local `visited`
    nets,        \* the local `nets`
    rpc,         \* "idle", "call", "loop", "done", "raised"
    log,         \* history: the [dom, depth] pairs expanded, in order
    queries,     \* history: the number of TXT queries sent since the start
    \* ---- pick_ip_from_networks, called on its own
    pick,        \* [pc, nets, out]
    \* ---- generate_dmarc_xml: arguments, locals, position
    gen,         \* [pc, pass_nets, fail_nets, report_domain, count, pools,
                 \*  must_emit, i, records, rec]
    \* ---- main, build_pools, run_once, run_hourly
    main,        \* [pc, status, the arguments, the pools, batch, i, and the
                 \*  history: hours, generated, attempts, sent, errors, tries]
    \* ---- _parse_spf_line, called on its own
    parse        \* [pc, line, out]

rvars == <<zone, includes, max_depth, order, stack, visited, nets, rpc, log, queries>>
pvars == <<pick>>
gvars == <<gen>>
mvars == <<main>>
lvars == <<parse>>
vars == <<rvars, pvars, gvars, mvars, lvars>>

\* ------------------------------------------------------------------ bounds
\* Address widths, scaled down from 32 and 128 bits.
V4Bits == 3
V6Bits == 4
\* The cap 2**32 on an IPv6 offset, scaled down with the widths: 2**CapBits.
CapBits == 2
\* The longest argument list `includes` tried.
MaxSeeds == 2
\* --min-per-hour and --max-per-hour are tried from 0 to MaxRate.
MaxRate == 2
\* The passes of `while True` in run_hourly that are followed.
MaxHours == 2
\* The longest SPF record given to _parse_spf_line on its own, in words.
MaxToks == 3

\* ------------------------------------------------------------------ helpers
RECURSIVE Pow2(_)
Pow2(n) == IF n <= 0 THEN 1 ELSE 2 * Pow2(n - 1)

Range(s) == {s[i] : i \in 1..Len(s)}

RECURSIVE Flatten(_)
Flatten(ss) == IF ss = <<>> THEN <<>> ELSE Head(ss) \o Flatten(Tail(ss))

Count(x, s) == Cardinality({i \in 1..Len(s) : s[i] = x})

SameBag(s, t) == \A x \in Range(s) \cup Range(t) : Count(x, s) = Count(x, t)

SeqsUpTo(S, n) == UNION {[1..k -> S] : k \in 0..n}

\* ------------------------------------------------------------------ ipaddress
Bits(ver) == IF ver = 4 THEN V4Bits ELSE V6Bits

\* ipaddress.ip_network(text, strict=False): a bare address is a network of
\* one address, host bits are masked away, anything else raises ValueError.
\* The family is read from the text, not from the mechanism's prefix.
ip_network(arg) ==
    IF arg.form = "junk" \/ arg.ver \notin {4, 6}
       \/ arg.addr < 0 \/ arg.addr >= Pow2(Bits(arg.ver))
    THEN [ok |-> FALSE, net |-> [ver |-> 0, base |-> 0, plen |-> 0]]
    ELSE IF arg.form = "addr"
    THEN [ok |-> TRUE, net |-> [ver |-> arg.ver, base |-> arg.addr, plen |-> Bits(arg.ver)]]
    ELSE IF arg.plen < 0 \/ arg.plen > Bits(arg.ver)
    THEN [ok |-> FALSE, net |-> [ver |-> 0, base |-> 0, plen |-> 0]]
    ELSE [ok |-> TRUE,
          net |-> [ver |-> arg.ver,
                   base |-> arg.addr - (arg.addr % Pow2(Bits(arg.ver) - arg.plen)),
                   plen |-> arg.plen]]

num_addresses(net) == Pow2(Bits(net.ver) - net.plen)

\* ------------------------------------------------------------------ words of a TXT record
Word(pfx, form, ver, addr, plen, name) ==
    [pfx |-> pfx, form |-> form, ver |-> ver, addr |-> addr, plen |-> plen, name |-> name]

Ip4Cidr(addr, plen) == Word("ip4:", "cidr", 4, addr, plen, "")
Ip6Cidr(addr, plen) == Word("ip6:", "cidr", 6, addr, plen, "")
Ip6Addr(addr) == Word("ip6:", "addr", 6, addr, 0, "")
IncludeOf(d) == Word("include:", "name", 0, 0, 0, d)
Other(text) == Word("", "name", 0, 0, 0, text)

\* str.lower() on the heads that occur.
Lower(h) == IF h = "V=SPF1" THEN "v=spf1" ELSE h

\* ------------------------------------------------------------------ _parse_spf_line
\* The loop that gives up the rest of the record at a malformed token.
RECURSIVE ParseWordsAbort(_, _, _)
ParseWordsAbort(parts, nets0, incs0) ==
    IF parts = <<>> THEN [nets |-> nets0, includes |-> incs0]
    ELSE LET p == Head(parts)
             n == ip_network(p)
         IN  IF p.pfx \in {"ip4:", "ip6:"}
             THEN IF n.ok
                  THEN ParseWordsAbort(Tail(parts), Append(nets0, n.net), incs0)
                  ELSE [nets |-> nets0, includes |-> incs0]
             ELSE IF p.pfx = "include:"
             THEN ParseWordsAbort(Tail(parts), nets0, Append(incs0, p.name))
             ELSE ParseWordsAbort(Tail(parts), nets0, incs0)

RECURSIVE ParseWords(_, _, _)
ParseWords(parts, nets0, incs0) ==
    IF parts = <<>> THEN [nets |-> nets0, includes |-> incs0]
    ELSE LET p == Head(parts)
             n == ip_network(p)
         IN  IF p.pfx \in {"ip4:", "ip6:"}
             THEN ParseWords(Tail(parts),
                             IF n.ok THEN Append(nets0, n.net) ELSE nets0, incs0)
             ELSE IF p.pfx = "include:"
             THEN ParseWords(Tail(parts), nets0, Append(incs0, p.name))
             ELSE ParseWords(Tail(parts), nets0, incs0)

_parse_spf_line(line) ==
    IF Lower(line.head) # "v=spf1"
    THEN [nets |-> <<>>, includes |-> <<>>]
    ELSE ParseWords(line.toks, <<>>, <<>>)

\* ------------------------------------------------------------------ _txt_records
NxDomain == [err |-> TRUE, rrs |-> <<>>]

\* dns.resolver.resolve(name, "TXT", lifetime=5.0): an answer or an exception.
dns_resolve(name) == IF name \in DOMAIN zone THEN zone[name] ELSE NxDomain

\* The same without the try/except: the exception leaves the function.
TxtRecordsNoExcept(name) ==
    [raised |-> dns_resolve(name).err, out |-> dns_resolve(name).rrs]

_txt_records(name) ==
    [raised |-> FALSE,
     out |-> IF dns_resolve(name).err THEN <<>> ELSE dns_resolve(name).rrs]

\* ------------------------------------------------------------------ the zones tried
Domains == {"a", "b", "c"}

\* Every domain publishes its own network: a an IPv4 block given with host
\* bits set, b an IPv6 block of two addresses, c a bare IPv6 address.
NetWord(d) ==
    IF d = "a" THEN Ip4Cidr(5, 1)
    ELSE IF d = "b" THEN Ip6Cidr(2, V6Bits - 1)
    ELSE Ip6Addr(1)

SpfHead(d) == IF d = "b" THEN "V=SPF1" ELSE "v=spf1"

\* A TXT record that is no SPF record; its words are never read.
Verification == [head |-> "site-verification=1", toks |-> <<IncludeOf("c")>>]

SpfLine(d, incs) ==
    [head |-> SpfHead(d),
     toks |-> <<NetWord(d)>> \o [i \in 1..Len(incs) |-> IncludeOf(incs[i])]
              \o <<Other("-all")>>]

Answer(d, incs) == [err |-> FALSE, rrs |-> <<Verification, SpfLine(d, incs)>>]

DistinctSeqs(S) ==
    {<<>>} \cup {<<x>> : x \in S} \cup {p \in S \X S : p[1] # p[2]}

\* What a domain's SPF record includes: a anything (itself too), b the other
\* two, c nothing, a, or the empty name of a bare "include:".
IncMenu(d) ==
    IF d = "a" THEN DistinctSeqs(Domains)
    ELSE IF d = "b" THEN DistinctSeqs({"a", "c"})
    ELSE {<<>>, <<"a">>, <<"">>}

\* The values of max_depth tried. Three domains never push an entry deeper
\* than 2, so 0 and 1 cut the resolution short and 2 never does.
DepthsTried == {0, 1, 2}

TxtMenu(d) == {NxDomain} \cup {Answer(d, s) : s \in IncMenu(d)}

Zones == {z \in [Domains -> UNION {TxtMenu(d) : d \in Domains}] :
            \A d \in Domains : z[d] \in TxtMenu(d)}

\* The strings an `includes` argument is made of, and str.strip() on them.
SeedStrings == {"a", " b", " "}
Strip(s) == IF s = " b" THEN "b" ELSE IF s = " " THEN "" ELSE s

\* ------------------------------------------------------------------ resolve_spf_includes
Entry(dom, depth) == [dom |-> dom, depth |-> depth]

\* stack = [(inc.strip(), 0) for inc in includes if inc.strip()]
Seeds(incl) ==
    LET kept == SelectSeq(incl, LAMBDA inc : Strip(inc) # "")
    IN  [i \in 1..Len(kept) |-> Entry(Strip(kept[i]), 0)]

\* The positions stack.pop() may take: the last one in the code.
PopChoices(s) == IF order = "LIFO" THEN {Len(s)} ELSE 1..Len(s)

\* The pop that forgets to remove the entry.
PopRestPeek(s, i) == s

\* What is left of the stack after the pop of position i.
PopRest(s, i) == SubSeq(s, 1, i - 1) \o SubSeq(s, i + 1, Len(s))

\* The guard without the visited test.
SkipNoVisited(dom, depth, vis, maxd) == dom = "" \/ depth > maxd

\* The guard without the test for the empty name.
SkipNoEmpty(dom, depth, vis, maxd) == dom \in vis \/ depth > maxd

\* The guard without the depth test.
SkipNoDepth(dom, depth, vis, maxd) == dom = "" \/ dom \in vis

\* if not dom or dom in visited or depth > max_depth: continue
Skip(dom, depth, vis, maxd) == dom = "" \/ dom \in vis \/ depth > maxd

\* The body of `for txt in _txt_records(dom)`: the networks of all records,
\* and the nested includes not yet visited, each one level deeper.
Expand(dom, depth, vis, txts) ==
    LET parsed == [i \in 1..Len(txts) |-> _parse_spf_line(txts[i])]
        found  == Flatten([i \in 1..Len(txts) |-> parsed[i].nets])
        nested == Flatten([i \in 1..Len(txts) |-> parsed[i].includes])
        fresh  == SelectSeq(nested, LAMBDA inc : inc \notin vis)
    IN  [nets |-> found,
         push |-> [i \in 1..Len(fresh) |-> Entry(fresh[i], depth + 1)]]

\* The visited set that outlives the call: what the call before left in it.
VisitedKept == visited

\* visited = set(): a new, empty set in every call.
NewVisited == {}

\* nets = []; visited = set(); stack = [...]
ResolveEnter ==
    /\ rpc = "call"
    /\ stack' = Seeds(includes)
    /\ visited' = NewVisited
    /\ nets' = <<>>
    /\ log' = <<>>
    /\ rpc' = "loop"
    /\ UNCHANGED <<zone, includes, max_depth, order, queries>>
    /\ UNCHANGED <<pvars, gvars, mvars, lvars>>

\* The locals after one pass through the body of `while stack` that pops
\* position i.
Body(i) ==
    LET e    == stack[i]
        rest == PopRest(stack, i)
        txt  == _txt_records(e.dom)
        x    == Expand(e.dom, e.depth, visited \cup {e.dom}, txt.out)
    IN  IF Skip(e.dom, e.depth, visited, max_depth)
        THEN [stack |-> rest, visited |-> visited, nets |-> nets,
              rpc |-> rpc, log |-> log, queries |-> queries]
        ELSE IF txt.raised
        THEN [stack |-> rest, visited |-> visited \cup {e.dom}, nets |-> nets,
              rpc |-> "raised", log |-> Append(log, e), queries |-> queries + 1]
        ELSE [stack |-> rest \o x.push, visited |-> visited \cup {e.dom},
              nets |-> nets \o x.nets, rpc |-> rpc, log |-> Append(log, e),
              queries |-> queries + 1]

\* One pass through the body of `while stack`.
ResolveStep ==
    /\ rpc = "loop"
    /\ stack # <<>>
    /\ \E i \in PopChoices(stack) :
         /\ stack' = Body(i).stack
         /\ visited' = Body(i).visited
         /\ nets' = Body(i).nets
         /\ rpc' = Body(i).rpc
         /\ log' = Body(i).log
         /\ queries' = Body(i).queries
    /\ UNCHANGED <<zone, includes, max_depth, order>>
    /\ UNCHANGED <<pvars, gvars, mvars, lvars>>

\* return nets, visited
ResolveReturn ==
    /\ rpc = "loop"
    /\ stack = <<>>
    /\ rpc' = "done"
    /\ UNCHANGED <<zone, includes, max_depth, order, stack, visited, nets, log, queries>>
    /\ UNCHANGED <<pvars, gvars, mvars, lvars>>

\* The function run to its end with the code's own pop (the last entry).
RECURSIVE RunLifo(_, _, _, _)
RunLifo(stk, vis, acc, maxd) ==
    IF stk = <<>> THEN [nets |-> acc, visited |-> vis]
    ELSE LET e    == stk[Len(stk)]
             rest == SubSeq(stk, 1, Len(stk) - 1)
         IN  IF Skip(e.dom, e.depth, vis, maxd)
             THEN RunLifo(rest, vis, acc, maxd)
             ELSE LET x == Expand(e.dom, e.depth, vis \cup {e.dom}, _txt_records(e.dom).out)
                  IN  RunLifo(rest \o x.push, vis \cup {e.dom}, acc \o x.nets, maxd)

resolve_spf_includes(incl, maxd) == RunLifo(Seeds(incl), {}, <<>>, maxd)

\* ------------------------------------------------------------------ parts not running
NoNet == [ver |-> 0, base |-> 0, plen |-> 0]
NoIp == [raised |-> FALSE, ver |-> 0, addr |-> 0, octets |-> <<>>, net |-> NoNet]
NoRec == [source_ip |-> NoIp, count |-> 0]

ResolverIdle ==
    /\ zone = [d \in Domains |-> NxDomain]
    /\ includes = <<>>
    /\ max_depth = 0
    /\ order = "LIFO"
    /\ stack = <<>>
    /\ visited = {}
    /\ nets = <<>>
    /\ log = <<>>
    /\ queries = 0
    /\ rpc = "idle"

PickIdle == pick = [pc |-> "idle", nets |-> <<>>, out |-> NoIp]

GenIdle ==
    gen = [pc |-> "idle", pass_nets |-> <<>>, fail_nets |-> <<>>, report_domain |-> "",
           count |-> 0, pools |-> <<>>, must_emit |-> <<>>, i |-> 0,
           records |-> <<>>, rec |-> NoRec]

MainIdle ==
    main = [pc |-> "idle", status |-> -1, min_per_hour |-> 1, max_per_hour |-> 1,
            once |-> TRUE, spf_pass_includes |-> "", spf_fail_includes |-> "",
            pass_nets |-> <<>>, fail_nets |-> <<>>, pass_visited |-> {},
            fail_visited |-> {}, batch |-> 0, i |-> 0, hours |-> 0,
            generated |-> 0, attempts |-> 0, sent |-> 0, errors |-> 0, tries |-> 0]

NoLine == [head |-> "", toks |-> <<>>]
NoParse == [nets |-> <<>>, includes |-> <<>>]
ParseIdle == parse = [pc |-> "idle", line |-> NoLine, out |-> NoParse]

\* ------------------------------------------------------------------ the resolver alone
InitResolve ==
    /\ zone \in Zones
    /\ includes \in SeqsUpTo(SeedStrings, MaxSeeds)
    /\ max_depth \in DepthsTried
    /\ order = "ANY"
    /\ stack = <<>>
    /\ visited = {}
    /\ nets = <<>>
    /\ log = <<>>
    /\ queries = 0
    /\ rpc = "call"
    /\ PickIdle
    /\ GenIdle
    /\ MainIdle
    /\ ParseIdle

NextResolve == ResolveEnter \/ ResolveStep \/ ResolveReturn

SpecResolve == InitResolve /\ [][NextResolve]_vars

\* ------------------------------------------------------------------ random
\* random.randint(lo, hi): every value of lo..hi; ValueError when it is empty.
RandInt(lo, hi) == lo..hi

\* random.randint(lo, hi) over a wide range (an octet, a message count),
\* tried at the two ends of the range.
Draw(lo, hi) == {x \in lo..hi : x = lo \/ x = hi}

Min(x, y) == IF x <= y THEN x ELSE y

\* ------------------------------------------------------------------ pick_ip_from_networks
Raised == [raised |-> TRUE, ver |-> 0, addr |-> 0, octets |-> <<>>, net |-> NoNet]

\* str(net.network_address + k): the text of an address of the network.
AddressOf(net, k) ==
    [raised |-> FALSE, ver |-> net.ver, addr |-> net.base + k, octets |-> <<>>, net |-> net]

\* f"{o1}.{o2}.{o3}.{o4}"
DottedQuad(o1, o2, o3, o4) ==
    [raised |-> FALSE, ver |-> 4, addr |-> 0, octets |-> <<o1, o2, o3, o4>>, net |-> NoNet]

OffsetCap == Pow2(CapBits)

\* min(size - 1, 2**32), the upper end of the IPv6 offset.
V6High(size) == Min(size - 1, OffsetCap)

\* The body after `net = random.choice(nets)`.
PickFrom(net) ==
    LET size == num_addresses(net)
    IN  IF net.ver = 4
        THEN IF size <= 2
             THEN {AddressOf(net, 0)}
             ELSE IF RandInt(1, size - 2) = {} THEN {Raised}
                  ELSE {AddressOf(net, idx) : idx \in RandInt(1, size - 2)}
        ELSE IF RandInt(1, V6High(size)) = {} THEN {Raised}
             ELSE {AddressOf(net, offset) : offset \in RandInt(1, V6High(size))}

\* The fallback that draws every octet from 0..255.
FallbackAnyOctet ==
    {DottedQuad(o1, o2, o3, o4) :
        o1 \in Draw(0, 255), o2 \in Draw(0, 255), o3 \in Draw(0, 255), o4 \in Draw(0, 255)}

\* The fallback of an empty pool.
Fallback ==
    {DottedQuad(o1, o2, o3, o4) :
        o1 \in Draw(1, 223), o2 \in Draw(0, 255), o3 \in Draw(0, 255), o4 \in Draw(1, 254)}

\* Every outcome of pick_ip_from_networks(nets): an address or ValueError.
pick_ip_from_networks(pool) ==
    IF pool = <<>> THEN Fallback
    ELSE UNION {PickFrom(pool[k]) : k \in 1..Len(pool)}

\* ip in net
Member(ip, net) ==
    /\ ip.ver = net.ver
    /\ net.base <= ip.addr
    /\ ip.addr < net.base + num_addresses(net)

\* Every network of the scaled address spaces.
AllNets ==
    {[ver |-> v, base |-> b, plen |-> l] : v \in {4, 6}, b \in 0..(Pow2(V6Bits) - 1),
                                           l \in 0..V6Bits}
        \cap {n \in [ver : {4, 6}, base : 0..(Pow2(V6Bits) - 1), plen : 0..V6Bits] :
                /\ n.plen <= Bits(n.ver)
                /\ n.base < Pow2(Bits(n.ver))
                /\ n.base % Pow2(Bits(n.ver) - n.plen) = 0}

\* The pools the sampler is called with on its own: every network alone, and
\* pairs of an IPv4 and an IPv6 network of the same prefix length.
PickPools ==
    {<<>>} \cup {<<n>> : n \in AllNets}
    \cup {<<n, m>> : n \in {x \in AllNets : x.ver = 4 /\ x.base = 0},
                     m \in {x \in AllNets : x.ver = 6 /\ x.base = 0}}

PickCall ==
    /\ pick.pc = "call"
    /\ \E out \in pick_ip_from_networks(pick.nets) :
         pick' = [pick EXCEPT !.pc = IF out.raised THEN "raised" ELSE "done", !.out = out]
    /\ UNCHANGED <<rvars, gvars, mvars, lvars>>

InitPick ==
    /\ ResolverIdle
    /\ GenIdle
    /\ MainIdle
    /\ ParseIdle
    /\ \E pool \in PickPools : pick = [pc |-> "call", nets |-> pool, out |-> NoIp]

NextPick == PickCall

SpecPick == InitPick /\ [][NextPick]_vars

\* ------------------------------------------------------------------ generate_dmarc_xml
\* The pools the synthesizer is called with: none, one IPv4 host, an IPv4
\* block, an IPv4 block with an IPv6 block wider than the offset cap, a
\* single IPv6 address, and a single IPv6 address with an IPv4 pair.
Net(ver, base, plen) == [ver |-> ver, base |-> base, plen |-> plen]

GenPools ==
    {<<>>,
     <<Net(4, 3, V4Bits)>>,
     <<Net(4, 4, V4Bits - 2)>>,
     <<Net(4, 0, V4Bits - 2), Net(6, 0, 0)>>,
     <<Net(6, 1, V6Bits)>>,
     <<Net(6, 1, V6Bits), Net(4, 2, V4Bits - 1)>>}

ReportDomains == {"example.com", "sub.example.org"}

PoolOf(mode, pool) == [mode |-> mode, nets |-> pool]

\* The count drawn from 1..3 whatever the pools are.
CountsOneToThree(pass_nets, fail_nets) == RandInt(1, 3)

\* count = random.randint(2, 4) if both pools exist, else random.randint(1, 3)
Counts(pass_nets, fail_nets) ==
    IF pass_nets # <<>> /\ fail_nets # <<>> THEN RandInt(2, 4) ELSE RandInt(1, 3)

\* pools: the non-empty pools, or ("pass", []) when there is none.
Pools(pass_nets, fail_nets) ==
    LET some == (IF pass_nets # <<>> THEN <<PoolOf("pass", pass_nets)>> ELSE <<>>)
                \o (IF fail_nets # <<>> THEN <<PoolOf("fail", fail_nets)>> ELSE <<>>)
    IN  IF some = <<>> THEN <<PoolOf("pass", <<>>)>> ELSE some

\* must_emit: one aligned and one failing slot when both pools exist.
MustEmit(pools, count, pass_nets, fail_nets) ==
    IF Len(pools) = 2 /\ count >= 2
    THEN <<PoolOf("pass", pass_nets), PoolOf("fail", fail_nets)>>
    ELSE <<>>

\* The slot that ignores must_emit.
SlotIgnoringMust(choice, must) == choice

\* mode, nets = random.choice(pools); if must_emit: mode, nets = must_emit.pop(0)
Slot(choice, must) == IF must # <<>> THEN Head(must) ELSE choice

\* dkim_ok drawn on its own, whatever spf_ok is.
DkimOkIndependent(spf_ok, coin) == coin

\* dkim_ok = not spf_ok or random.choice([True, False])
DkimOk(spf_ok, coin) == (~spf_ok) \/ coin

Result(ok) == IF ok THEN "pass" ELSE "fail"

\* The else branch that reports what was drawn.
PolicyEvaluatedNoElse(mode, spf_ok, dkim_ok) ==
    [disposition |-> "none", dkim |-> Result(dkim_ok), spf |-> Result(spf_ok)]

\* The else branch that rejects what fails.
PolicyEvaluatedReject(mode, spf_ok, dkim_ok) ==
    IF mode = "pass"
    THEN [disposition |-> "none", dkim |-> Result(dkim_ok), spf |-> Result(spf_ok)]
    ELSE [disposition |-> "reject", dkim |-> "fail", spf |-> "fail"]

\* The policy_evaluated element of a record.
PolicyEvaluated(mode, spf_ok, dkim_ok) ==
    IF mode = "pass"
    THEN [disposition |-> "none", dkim |-> Result(dkim_ok), spf |-> Result(spf_ok)]
    ELSE [disposition |-> "none", dkim |-> "fail", spf |-> "fail"]

\* The auth result that is "pass" whatever was evaluated.
MirrorAlwaysPass(text) == "pass"

\* "pass" if pol.findtext(...) == "pass" else "fail"
Mirror(text) == IF text = "pass" THEN "pass" ELSE "fail"

\* One <record>, without its row's source_ip and count: those of the record
\* built last are kept in gen.rec.
Record(slot, pol, report_domain) ==
    [mode |-> slot.mode, nets |-> slot.nets,
     disposition |-> pol.disposition, dkim |-> pol.dkim, spf |-> pol.spf,
     header_from |-> report_domain,
     ar_dkim_domain |-> report_domain, ar_dkim_result |-> Mirror(pol.dkim),
     ar_spf_domain |-> report_domain, ar_spf_result |-> Mirror(pol.spf)]

\* Lines 115-154: the metadata, the count, the pools and must_emit.
GenStart ==
    /\ gen.pc = "call"
    /\ \E count \in Counts(gen.pass_nets, gen.fail_nets) :
         LET pools == Pools(gen.pass_nets, gen.fail_nets)
         IN  gen' = [gen EXCEPT !.pc = "loop", !.count = count, !.pools = pools,
                                !.must_emit = MustEmit(pools, count, gen.pass_nets,
                                                       gen.fail_nets),
                                !.i = 0, !.records = <<>>, !.rec = NoRec]
    /\ UNCHANGED <<rvars, pvars, mvars, lvars>>

\* One pass through the body of `for i in range(count)`; a ValueError of
\* pick_ip_from_networks leaves the function.
GenRecord ==
    /\ gen.pc = "loop"
    /\ gen.i < gen.count
    /\ \E choice \in Range(gen.pools), n \in Draw(1, 7), spf_ok \in BOOLEAN, coin \in BOOLEAN :
         LET slot == Slot(choice, gen.must_emit)
             must == IF gen.must_emit # <<>> THEN Tail(gen.must_emit) ELSE <<>>
             pol  == PolicyEvaluated(slot.mode, spf_ok, DkimOk(spf_ok, coin))
         IN  \E ip \in pick_ip_from_networks(slot.nets) :
                IF ip.raised
                THEN gen' = [gen EXCEPT !.pc = "raised", !.must_emit = must]
                ELSE gen' = [gen EXCEPT !.must_emit = must, !.i = gen.i + 1,
                                        !.rec = [source_ip |-> ip, count |-> n],
                                        !.records = Append(gen.records,
                                                           Record(slot, pol, gen.report_domain))]
    /\ UNCHANGED <<rvars, pvars, mvars, lvars>>

\* Lines 198-199: the document is serialized and returned.
GenReturn ==
    /\ gen.pc = "loop"
    /\ gen.i = gen.count
    /\ gen' = [gen EXCEPT !.pc = "done"]
    /\ UNCHANGED <<rvars, pvars, mvars, lvars>>

InitGen ==
    /\ ResolverIdle
    /\ PickIdle
    /\ MainIdle
    /\ ParseIdle
    /\ \E p \in GenPools, f \in GenPools, d \in ReportDomains :
         gen = [pc |-> "call", pass_nets |-> p, fail_nets |-> f, report_domain |-> d,
                count |-> 0, pools |-> <<>>, must_emit |-> <<>>, i |-> 0,
                records |-> <<>>, rec |-> NoRec]

NextGen == GenStart \/ GenRecord \/ GenReturn

SpecGen == InitGen /\ [][NextGen]_vars

\* ------------------------------------------------------------------ _parse_spf_line alone
\* The words the records are made of: a network with host bits set, text
\* that is no address, a prefix length longer than the address, an empty
\* ip6: argument, a bare IPv6 address, an include and a qualifier.
Ip4Garbage == Word("ip4:", "junk", 0, 0, 0, "not-an-address")
Ip4LongPrefix == Ip4Cidr(2, V4Bits + 1)
Ip6Empty == Word("ip6:", "junk", 0, 0, 0, "")

ParseTokens ==
    {Ip4Cidr(5, 1), Ip4Garbage, Ip4LongPrefix, Ip6Empty, Ip6Addr(1),
     IncludeOf("b"), Other("-all")}

ParseHeads == {"v=spf1", "V=SPF1", "site-verification=1"}

\* The records tried: every head with no word or one, and the SPF head with
\* up to MaxToks words.
ParseLines ==
    {[head |-> h, toks |-> t] : h \in ParseHeads, t \in SeqsUpTo(ParseTokens, 1)}
    \cup {[head |-> "v=spf1", toks |-> t] : t \in SeqsUpTo(ParseTokens, MaxToks)}

ParseCall ==
    /\ parse.pc = "call"
    /\ parse' = [parse EXCEPT !.pc = "done", !.out = _parse_spf_line(parse.line)]
    /\ UNCHANGED <<rvars, pvars, gvars, mvars>>

InitParse ==
    /\ ResolverIdle
    /\ PickIdle
    /\ GenIdle
    /\ MainIdle
    /\ \E line \in ParseLines : parse = [pc |-> "call", line |-> line, out |-> NoParse]

NextParse == ParseCall

SpecParse == InitParse /\ [][NextParse]_vars

\* ------------------------------------------------------------------ run_once
\* Whether pick_ip_from_networks(pool) can raise, and whether it can return.
PickMayRaise(pool) == \E out \in pick_ip_from_networks(pool) : out.raised
PickMayReturn(pool) == \E out \in pick_ip_from_networks(pool) : ~out.raised

\* The ways the loop of generate_dmarc_xml can end from slot i on.
RECURSIVE GenEnds(_, _, _, _)
GenEnds(i, count, pools, must) ==
    IF i = count THEN {"done"}
    ELSE UNION {
           LET slot == Slot(choice, must)
               rest == IF must # <<>> THEN Tail(must) ELSE <<>>
           IN  (IF PickMayRaise(slot.nets) THEN {"raised"} ELSE {})
               \cup (IF PickMayReturn(slot.nets)
                     THEN GenEnds(i + 1, count, pools, rest) ELSE {})
           : choice \in Range(pools)}

\* The ways generate_dmarc_xml(..., pass_nets, fail_nets) can end.
GenOutcomes(pass_nets, fail_nets) ==
    UNION {GenEnds(0, count, Pools(pass_nets, fail_nets),
                   MustEmit(Pools(pass_nets, fail_nets), count, pass_nets, fail_nets))
           : count \in Counts(pass_nets, fail_nets)}

\* The ways run_once can end: the report generated and handed to SMTP
\* ("sent"), send_email raising ("smtp_error"), or generate_dmarc_xml raising
\* before anything is sent ("gen_error").
RunOnceOutcomes(pass_nets, fail_nets) ==
    LET ends == GenOutcomes(pass_nets, fail_nets)
    IN  (IF "done" \in ends THEN {"sent", "smtp_error"} ELSE {})
        \cup (IF "raised" \in ends THEN {"gen_error"} ELSE {})

\* The history after one call of run_once that ended in `how`; tries counts
\* the calls made since the batch was drawn.
Counted(m, how) ==
    [m EXCEPT !.tries = m.tries + 1,
              !.generated = m.generated + (IF how = "gen_error" THEN 0 ELSE 1),
              !.attempts = m.attempts + (IF how = "gen_error" THEN 0 ELSE 1),
              !.sent = m.sent + (IF how = "sent" THEN 1 ELSE 0)]

\* ------------------------------------------------------------------ main
DefaultMaxDepth == 4

\* str.split() on the values of --spf-pass-includes and --spf-fail-includes
\* that are tried.
IncludeArgs == {"", "a", " b ", "b a"}
Split(text) ==
    IF text = "a" THEN <<"a">>
    ELSE IF text = " b " THEN <<"b">>
    ELSE IF text = "b a" THEN <<"b", "a">>
    ELSE <<>>

\* pass_list = pass_includes.split() if pass_includes else []
IncludeList(text) == IF text # "" THEN Split(text) ELSE <<>>

\* The zones the whole program is run against: the chain a -> b -> c, the
\* cycle a -> b -> a, the chain with b unreachable, and no DNS at all.
MainZones ==
    {[a |-> Answer("a", <<"b">>), b |-> Answer("b", <<"c">>), c |-> Answer("c", <<>>)],
     [a |-> Answer("a", <<"b">>), b |-> Answer("b", <<"a">>), c |-> Answer("c", <<"a">>)],
     [a |-> Answer("a", <<"b", "c">>), b |-> NxDomain, c |-> Answer("c", <<"">>)],
     [a |-> NxDomain, b |-> NxDomain, c |-> NxDomain]}

\* The test that lets min-per-hour = 0 through.
InvalidBoundsOffByOne(lo, hi) == lo < 0 \/ hi < lo

\* args.min_per_hour < 1 or args.max_per_hour < args.min_per_hour
InvalidBounds(lo, hi) == lo < 1 \/ hi < lo

\* Lines 341-344: parse_args and the check of the per-hour bounds.
MainValidate ==
    /\ main.pc = "start"
    /\ IF InvalidBounds(main.min_per_hour, main.max_per_hour)
       THEN main' = [main EXCEPT !.pc = "exit", !.status = 2]
       ELSE main' = [main EXCEPT !.pc = "build_pools"]
    /\ UNCHANGED <<rvars, pvars, gvars, lvars>>

\* Lines 269-271: build_pools calls resolve_spf_includes(pass_list).
BuildPoolsPass ==
    /\ main.pc = "build_pools"
    /\ includes' = IncludeList(main.spf_pass_includes)
    /\ max_depth' = DefaultMaxDepth
    /\ rpc' = "call"
    /\ main' = [main EXCEPT !.pc = "resolve_pass"]
    /\ UNCHANGED <<zone, order, stack, visited, nets, log, queries>>
    /\ UNCHANGED <<pvars, gvars, lvars>>

\* Lines 271-272: the pass side has returned; resolve_spf_includes(fail_list).
BuildPoolsFail ==
    /\ main.pc = "resolve_pass"
    /\ rpc = "done"
    /\ includes' = IncludeList(main.spf_fail_includes)
    /\ max_depth' = DefaultMaxDepth
    /\ rpc' = "call"
    /\ main' = [main EXCEPT !.pc = "resolve_fail", !.pass_nets = nets,
                            !.pass_visited = visited]
    /\ UNCHANGED <<zone, order, stack, visited, nets, log, queries>>
    /\ UNCHANGED <<pvars, gvars, lvars>>

\* Lines 272-273 and 346-348: the fail side has returned; main prints both.
BuildPoolsReturn ==
    /\ main.pc = "resolve_fail"
    /\ rpc = "done"
    /\ rpc' = "idle"
    /\ main' = [main EXCEPT !.pc = "dispatch", !.fail_nets = nets,
                            !.fail_visited = visited]
    /\ UNCHANGED <<zone, includes, max_depth, order, stack, visited, nets, log, queries>>
    /\ UNCHANGED <<pvars, gvars, lvars>>

\* Lines 350-351: --once. An exception of run_once is not caught: the
\* interpreter prints the traceback and exits with status 1.
MainOnce ==
    /\ main.pc = "dispatch"
    /\ main.once
    /\ \E how \in RunOnceOutcomes(main.pass_nets, main.fail_nets) :
         main' = [Counted(main, how) EXCEPT !.pc = "exit",
                                            !.status = IF how = "sent" THEN 0 ELSE 1]
    /\ UNCHANGED <<rvars, pvars, gvars, lvars>>

\* Lines 352-353: main enters run_hourly.
MainHourly ==
    /\ main.pc = "dispatch"
    /\ ~main.once
    /\ main' = [main EXCEPT !.pc = "hourly"]
    /\ UNCHANGED <<rvars, pvars, gvars, lvars>>

\* Lines 296-299: the top of `while True`: the batch size and base_sleep.
\* An empty range or a batch of 0 (3600.0 / batch) raises out of main.
HourlyBatch ==
    /\ main.pc = "hourly"
    /\ main.hours < MaxHours
    /\ IF RandInt(main.min_per_hour, main.max_per_hour) = {}
       THEN main' = [main EXCEPT !.pc = "exit", !.status = 1]
       ELSE \E batch \in RandInt(main.min_per_hour, main.max_per_hour) :
              IF batch = 0
              THEN main' = [main EXCEPT !.pc = "exit", !.status = 1, !.batch = batch]
              ELSE main' = [main EXCEPT !.pc = "slot", !.batch = batch, !.i = 0,
                                            !.tries = 0]
    /\ UNCHANGED <<rvars, pvars, gvars, lvars>>

\* The slot whose exception is not caught: it leaves run_hourly and main.
SlotEndNoExcept(m, how) ==
    IF how = "sent"
    THEN [m EXCEPT !.i = m.i + 1,
                   !.pc = IF m.i + 1 = m.batch THEN "hourly" ELSE "slot",
                   !.hours = m.hours + (IF m.i + 1 = m.batch THEN 1 ELSE 0)]
    ELSE [m EXCEPT !.errors = m.errors + 1, !.pc = "exit", !.status = 1]

\* The slot that is run again after an error.
SlotEndRetry(m, how) ==
    [m EXCEPT !.errors = m.errors + (IF how = "sent" THEN 0 ELSE 1),
              !.i = m.i + (IF how = "sent" THEN 1 ELSE 0),
              !.pc = IF how = "sent" /\ m.i + 1 = m.batch THEN "hourly" ELSE "slot",
              !.hours = m.hours + (IF how = "sent" /\ m.i + 1 = m.batch THEN 1 ELSE 0)]

\* Lines 301-308: the end of a slot whose run_once ended in `how`: the
\* except clause prints the error, and `for` moves to the next slot or, after
\* the last one, `while True` to the next batch.
SlotEnd(m, how) ==
    [m EXCEPT !.errors = m.errors + (IF how = "sent" THEN 0 ELSE 1),
              !.i = m.i + 1,
              !.pc = IF m.i + 1 = m.batch THEN "hourly" ELSE "slot",
              !.hours = m.hours + (IF m.i + 1 = m.batch THEN 1 ELSE 0)]

\* Lines 300-308: one slot of the batch: run_once inside try/except, then
\* the sleep unless it was the last slot.
HourlySlot ==
    /\ main.pc = "slot"
    /\ main.i < main.batch
    /\ \E how \in RunOnceOutcomes(main.pass_nets, main.fail_nets) :
         main' = SlotEnd(Counted(main, how), how)
    /\ UNCHANGED <<rvars, pvars, gvars, lvars>>

Init ==
    /\ zone \in MainZones
    /\ includes = <<>>
    /\ max_depth = 0
    /\ order = "LIFO"
    /\ stack = <<>>
    /\ visited = {}
    /\ nets = <<>>
    /\ log = <<>>
    /\ queries = 0
    /\ rpc = "idle"
    /\ PickIdle
    /\ GenIdle
    /\ ParseIdle
    /\ \E lo \in 0..MaxRate, hi \in 0..MaxRate, once \in BOOLEAN,
          p \in IncludeArgs, f \in IncludeArgs :
         main = [pc |-> "start", status |-> -1, min_per_hour |-> lo, max_per_hour |-> hi,
                 once |-> once, spf_pass_includes |-> p, spf_fail_includes |-> f,
                 pass_nets |-> <<>>, fail_nets |-> <<>>, pass_visited |-> {},
                 fail_visited |-> {}, batch |-> 0, i |-> 0, hours |-> 0,
                 generated |-> 0, attempts |-> 0, sent |-> 0, errors |-> 0, tries |-> 0]

Next ==
    \/ MainValidate
    \/ BuildPoolsPass
    \/ ResolveEnter
    \/ ResolveStep
    \/ ResolveReturn
    \/ BuildPoolsFail
    \/ BuildPoolsReturn
    \/ MainOnce
    \/ MainHourly
    \/ HourlyBatch
    \/ HourlySlot

Spec == Init /\ [][Next]_vars

\* ------------------------------------------------------------------ the include graph
\* The domains a domain's records include, as the resolver reads them.
IncludesOf(d) ==
    LET txts == _txt_records(d).out
    IN  Range(Flatten([i \in 1..Len(txts) |-> _parse_spf_line(txts[i]).includes]))

\* The networks a domain's own records publish.
OwnNets(d) ==
    LET txts == _txt_records(d).out
    IN  Range(Flatten([i \in 1..Len(txts) |-> _parse_spf_line(txts[i]).nets]))

\* The domains within k include steps of the seeds.
RECURSIVE Within(_)
Within(k) ==
    IF k = 0 THEN {e.dom : e \in Range(Seeds(includes))}
    ELSE Within(k - 1) \cup UNION {IncludesOf(d) : d \in Within(k - 1) \ {""}}

LogDoms == {log[i].dom : i \in 1..Len(log)}

\* ------------------------------------------------------------------ claims on the resolver
\* The variant of the loop: the phase of the call, then the number of domains
\* not yet visited, then the length of the frontier, compared in that order.
Phase == IF rpc = "call" THEN 2 ELSE IF rpc = "loop" THEN 1 ELSE 0
Rank == <<Phase, Cardinality(Domains \ visited), Len(stack)>>
RankLess(r, q) ==
    \/ r[1] < q[1]
    \/ r[1] = q[1] /\ r[2] < q[2]
    \/ r[1] = q[1] /\ r[2] = q[2] /\ r[3] < q[3]

\* A pass of the loop that changes the locals is possible.
CanStep ==
    \E i \in PopChoices(stack) :
        <<Body(i).stack, Body(i).visited, Body(i).nets, Body(i).rpc, Body(i).log>>
            # <<stack, visited, nets, rpc, log>>

\* C1: for every include graph (cycles and diamonds included) and every pop
\* order, the resolution terminates: while the frontier is not empty a pass
\* of the loop is possible, the call never ends by an exception, and every
\* step strictly lowers the variant (an expansion visits a new domain, a
\* skip shortens the frontier), which cannot go below <<0, 0, 0>>; so the
\* frontier empties and the function returns.
C1_Terminates ==
    /\ [][RankLess(Rank', Rank)]_vars
    /\ [](rpc \in {"call", "loop", "done"})
    /\ [](rpc = "loop" /\ stack # <<>> => CanStep)

\* C1 witness: a resolution over the cycle a -> b -> a has returned with both
\* domains expanded.
C1_Witness ==
    /\ rpc = "done"
    /\ "b" \in IncludesOf("a")
    /\ "a" \in IncludesOf("b")
    /\ {"a", "b"} \subseteq visited

\* C2: within one call every domain is expanded at most once: no domain is
\* in the history of expansions twice, the visited set is exactly the set of
\* expanded domains, and one TXT query was sent per visited domain.
C2_ExpandedAtMostOnce ==
    /\ \A i, j \in 1..Len(log) : i # j => log[i].dom # log[j].dom
    /\ visited = LogDoms
    /\ queries = Cardinality(visited)

\* C2 witness: a was seeded twice and is included again by b, and the call
\* has returned after expanding both.
C2_Witness ==
    /\ rpc = "done"
    /\ Len(includes) = 2
    /\ includes[1] = "a" /\ includes[2] = "a"
    /\ "a" \in IncludesOf("b")
    /\ {"a", "b"} \subseteq visited

\* C3: no pair deeper than max_depth is expanded, and a domain that is not
\* within max_depth include steps of the seeds is never visited and none of
\* its networks is in the result.
C3_DepthBound ==
    /\ \A i \in 1..Len(log) : log[i].depth <= max_depth
    /\ \A d \in Domains \ Within(max_depth) :
         /\ d \notin visited
         /\ OwnNets(d) \cap Range(nets) = {}

\* C3 witness: the call has returned, and a domain that publishes a network
\* is included by an expanded domain but lies beyond max_depth.
C3_Witness ==
    /\ rpc = "done"
    /\ \E d \in Domains \ Within(max_depth) :
         /\ OwnNets(d) # {}
         /\ \E v \in visited : d \in IncludesOf(v)

\* C4: the pop order is not meaningful: whatever entries the pops take, the
\* call ends with the visited set and the collection of networks that the
\* last-in-first-out run of the code ends with.
C4_PopOrderIrrelevant ==
    rpc = "done" =>
        /\ visited = resolve_spf_includes(includes, max_depth).visited
        /\ SameBag(nets, resolve_spf_includes(includes, max_depth).nets)

\* C5: the expansion of a domain whose TXT lookup fails does not raise; it
\* marks the domain visited, adds no network and pushes nothing, and leaves
\* every other entry on the frontier with the loop still running.
C5_DnsFailureIsLocal ==
    [][(Len(log') = Len(log) + 1 /\ dns_resolve(log'[Len(log')].dom).err) =>
         LET dom == log'[Len(log')].dom
         IN  /\ rpc' = "loop"
             /\ visited' = visited \cup {dom}
             /\ nets' = nets
             /\ \E i \in 1..Len(stack) :
                  /\ stack[i].dom = dom
                  /\ stack' = SubSeq(stack, 1, i - 1) \o SubSeq(stack, i + 1, Len(stack))]_vars

\* C5 witness: a lookup failed, a domain was expanded after it, and the call
\* has returned.
C5_Witness ==
    /\ rpc = "done"
    /\ \E i, j \in 1..Len(log) :
         /\ i < j
         /\ dns_resolve(log[i].dom).err
         /\ ~dns_resolve(log[j].dom).err
         /\ nets # <<>>

\* ------------------------------------------------------------------ claims on the sampler
\* C6: for every non-empty pool, of IPv4 or IPv6 networks of any prefix
\* length, pick_ip_from_networks returns an address that is a member of the
\* network it chose, and the network address itself for an IPv4 network of
\* one or two addresses.
C6_PickedIsMember ==
    (pick.pc \in {"done", "raised"} /\ pick.nets # <<>>) =>
        /\ pick.pc = "done"
        /\ pick.out.net \in Range(pick.nets)
        /\ Member(pick.out, pick.out.net)
        /\ (pick.out.net.ver = 4 /\ num_addresses(pick.out.net) <= 2
              => pick.out.addr = pick.out.net.base)

\* ------------------------------------------------------------------ claims on the synthesizer
Recs == Range(gen.records)

\* C7: when both pools are non-empty (so that the count is at least 2), every
\* document returned holds a record built in pass mode from the pass pool and
\* a record built in fail mode from the fail pool.
C7_BothPoolsRepresented ==
    (gen.pc = "done" /\ gen.pass_nets # <<>> /\ gen.fail_nets # <<>> /\ gen.count >= 2) =>
        /\ \E r \in Recs : r.mode = "pass" /\ r.nets = gen.pass_nets
        /\ \E r \in Recs : r.mode = "fail" /\ r.nets = gen.fail_nets

\* C7 witness: a document of four records over two different non-empty pools
\* has been returned, its two free slots both drawn from the pass pool.
C7_Witness ==
    /\ gen.pc = "done"
    /\ gen.pass_nets # <<>> /\ gen.fail_nets # <<>>
    /\ gen.pass_nets # gen.fail_nets
    /\ gen.count = 4
    /\ gen.records[3].mode = "pass" /\ gen.records[4].mode = "pass"

\* C8: in every record built in pass mode, the policy-evaluated dkim result
\* or the policy-evaluated spf result is "pass".
C8_PassModeHasAPass ==
    \A r \in Recs : r.mode = "pass" => (r.dkim = "pass" \/ r.spf = "pass")

\* C8 witness: the draws spf_ok = False and spf_ok = True with dkim_ok = False
\* have both happened in pass-mode records of one returned document.
C8_Witness ==
    /\ gen.pc = "done"
    /\ \E r \in Recs : r.mode = "pass" /\ r.spf = "fail" /\ r.dkim = "pass"
    /\ \E r \in Recs : r.mode = "pass" /\ r.spf = "pass" /\ r.dkim = "fail"

\* C9: in every record built in fail mode, the policy-evaluated dkim result
\* and the policy-evaluated spf result are both "fail".
C9_FailModeBothFail ==
    \A r \in Recs : r.mode = "fail" => (r.dkim = "fail" /\ r.spf = "fail")

\* C9 witness: a returned document holds two fail-mode records, one forced
\* and one drawn.
C9_Witness ==
    /\ gen.pc = "done"
    /\ Cardinality({k \in 1..Len(gen.records) : gen.records[k].mode = "fail"}) >= 2

\* ------------------------------------------------------------------ claims on main
InvalidArgs == main.min_per_hour < 1 \/ main.max_per_hour < main.min_per_hour

\* C10: when the per-hour bounds are invalid (min-per-hour < 1, or
\* max-per-hour < min-per-hour), the one step main takes is the exit with
\* status 2, in single-shot and in continuous mode: the process is at its
\* start or has exited with that status, no resolution was started, no TXT
\* query was sent, and no report was generated or handed to SMTP.
C10_InvalidBoundsExitFirst ==
    /\ [](InvalidArgs =>
            /\ main.pc \in {"start", "exit"}
            /\ main.pc = "exit" => main.status = 2
            /\ rpc = "idle"
            /\ queries = 0
            /\ main.generated = 0 /\ main.attempts = 0 /\ main.sent = 0)
    /\ [][(InvalidArgs /\ main.pc = "start") =>
             (main'.pc = "exit" /\ main'.status = 2)]_vars

\* C10 witness: continuous mode with min-per-hour = 0 and include lists that
\* would cause queries has exited with status 2.
C10_Witness ==
    /\ main.pc = "exit"
    /\ main.status = 2
    /\ main.min_per_hour = 0
    /\ ~main.once
    /\ main.spf_pass_includes = "b a"
    /\ ~dns_resolve("a").err

\* ------------------------------------------------------------------ claims on run_hourly
\* C11: in run_hourly a slot whose run_once raised (while generating or
\* while sending) is counted as an error and nothing more: the process is
\* still running, the loop is at the next slot of the same batch or at the
\* next batch, from there the next call of run_once or the next draw of a
\* batch is possible, and in continuous mode the process never exits after
\* the validation of its arguments.
C11_FailureIsCaught ==
    /\ [][(main.pc = "slot" /\ main'.errors > main.errors) =>
            /\ main'.status = -1
            /\ main'.batch = main.batch
            /\ main'.i = main.i + 1
            /\ main'.pc = (IF main.i + 1 < main.batch THEN "slot" ELSE "hourly")]_vars
    /\ [](main.pc = "slot" =>
            /\ main.status = -1
            /\ main.i < main.batch
            /\ RunOnceOutcomes(main.pass_nets, main.fail_nets) # {})
    /\ [](main.pc = "hourly" =>
            /\ main.status = -1
            /\ RandInt(main.min_per_hour, main.max_per_hour) # {}
            /\ \A b \in RandInt(main.min_per_hour, main.max_per_hour) : b >= 1)
    /\ []((~main.once /\ main.pc = "exit") => (main.status = 2 /\ InvalidArgs))

\* C11 witness: two batches have been run to their end, with a report that
\* could not be generated, a send that failed and a report that was sent
\* among their slots.
C11_Witness ==
    /\ main.pc = "hourly"
    /\ main.hours = 2
    /\ main.errors >= 2
    /\ main.sent >= 1
    /\ main.generated < main.errors + main.sent
    /\ main.generated > main.sent

\* C12: the process ends only by the validation of its arguments or, in
\* single-shot mode, after its one report was sent: no error of the DNS, of
\* an SPF token or of the send cycle ends it, in either mode.
C12_OnlyValidationIsFatal ==
    main.pc = "exit" =>
        \/ main.status = 2 /\ InvalidArgs
        \/ main.status = 0 /\ main.once /\ main.sent = 1

\* C18: in every pass of `while True` the batch drawn lies between
\* min-per-hour and max-per-hour, every slot makes one call of run_once and
\* moves to the next slot whether the call succeeded or failed, and the pass
\* ends after exactly batch calls.
C18_OneAttemptPerSlot ==
    /\ [](main.pc = "slot" =>
            /\ main.min_per_hour <= main.batch /\ main.batch <= main.max_per_hour
            /\ main.tries = main.i
            /\ main.i < main.batch)
    /\ []((main.pc = "hourly" /\ main.hours > 0) =>
            /\ main.min_per_hour <= main.batch /\ main.batch <= main.max_per_hour
            /\ main.tries = main.batch
            /\ main.i = main.batch)
    /\ [][main.pc = "slot" =>
            /\ main'.batch = main.batch
            /\ main'.tries = main.tries + 1
            /\ main'.i = main.i + 1
            /\ main'.errors + main'.sent = main.errors + main.sent + 1]_vars

\* C18 witness: a batch of two slots has ended after a failure in one slot
\* and a report sent in the other, with bounds that allowed a batch of one.
C18_Witness ==
    /\ main.pc = "hourly"
    /\ main.hours = 1
    /\ main.min_per_hour < main.max_per_hour
    /\ main.batch = 2
    /\ main.errors = 1
    /\ main.sent = 1

\* ------------------------------------------------------------------ claims on build_pools
ResolvedAlone(text) == resolve_spf_includes(IncludeList(text), DefaultMaxDepth)

PassSideBuilt ==
    main.pc \in {"resolve_fail", "dispatch", "hourly", "slot"}
        \/ (main.pc = "exit" /\ main.status # 2)

BothSidesBuilt ==
    main.pc \in {"dispatch", "hourly", "slot"} \/ (main.pc = "exit" /\ main.status # 2)

\* C14: each side of build_pools ends with the networks and the visited set
\* that resolve_spf_includes gives for that side's include list alone, and
\* the TXT queries sent are one per domain visited on the pass side plus one
\* per domain visited on the fail side: a domain of both sides is expanded
\* once on each.
C14_SidesIndependent ==
    /\ PassSideBuilt =>
         /\ main.pass_nets = ResolvedAlone(main.spf_pass_includes).nets
         /\ main.pass_visited = ResolvedAlone(main.spf_pass_includes).visited
    /\ BothSidesBuilt =>
         /\ main.fail_nets = ResolvedAlone(main.spf_fail_includes).nets
         /\ main.fail_visited = ResolvedAlone(main.spf_fail_includes).visited
         /\ queries = Cardinality(main.pass_visited) + Cardinality(main.fail_visited)

\* C14 witness: both sides are built, they have visited domains in common
\* but not the same domains, and both have found networks.
C14_Witness ==
    /\ main.pc = "dispatch"
    /\ main.pass_visited \cap main.fail_visited # {}
    /\ main.pass_visited # main.fail_visited
    /\ main.pass_nets # <<>>
    /\ main.fail_nets # <<>>

\* ------------------------------------------------------------------ more claims on the synthesizer
OctetsOk(o) ==
    /\ Len(o) = 4
    /\ 1 <= o[1] /\ o[1] <= 223
    /\ 0 <= o[2] /\ o[2] <= 255
    /\ 0 <= o[3] /\ o[3] <= 255
    /\ 1 <= o[4] /\ o[4] <= 254

\* C13: the count drawn is 2, 3 or 4 when both pools are non-empty and 1, 2
\* or 3 otherwise, the loop has built as many records as slots it has passed,
\* never more than the count, and a returned document holds exactly count
\* records.
C13_RecordCount ==
    gen.pc \in {"loop", "done", "raised"} =>
        /\ gen.count \in (IF gen.pass_nets # <<>> /\ gen.fail_nets # <<>>
                          THEN {2, 3, 4} ELSE {1, 2, 3})
        /\ Len(gen.records) = gen.i
        /\ gen.i <= gen.count
        /\ gen.pc = "done" => Len(gen.records) = gen.count

\* C13 witness: a document of three records over the fail pool alone has
\* been returned.
C13_Witness ==
    /\ gen.pc = "done"
    /\ gen.pass_nets = <<>>
    /\ gen.fail_nets # <<>>
    /\ gen.count = 3
    /\ Len(gen.records) = 3

\* C15: with both pools empty every slot is drawn from the empty placeholder
\* pool, the call never raises, and the source IP of every record is a
\* dotted quad with octets in 1..223, 0..255, 0..255 and 1..254; with exactly
\* one pool non-empty every slot has that pool and its mode, and the source
\* IP of every record is taken from a network of that pool.
C15_FallbackAndSinglePool ==
    /\ (gen.pass_nets = <<>> /\ gen.fail_nets = <<>>) =>
         /\ gen.pc # "raised"
         /\ \A r \in Recs : r.nets = <<>>
         /\ gen.rec # NoRec =>
              /\ ~gen.rec.source_ip.raised
              /\ gen.rec.source_ip.net = NoNet
              /\ OctetsOk(gen.rec.source_ip.octets)
    /\ (gen.pass_nets # <<>> /\ gen.fail_nets = <<>>) =>
         /\ \A r \in Recs : r.mode = "pass" /\ r.nets = gen.pass_nets
         /\ gen.rec # NoRec =>
              /\ gen.rec.source_ip.net \in Range(gen.pass_nets)
              /\ gen.rec.source_ip.octets = <<>>
    /\ (gen.pass_nets = <<>> /\ gen.fail_nets # <<>>) =>
         /\ \A r \in Recs : r.mode = "fail" /\ r.nets = gen.fail_nets
         /\ gen.rec # NoRec =>
              /\ gen.rec.source_ip.net \in Range(gen.fail_nets)
              /\ gen.rec.source_ip.octets = <<>>

\* C15 witness: a document of three records has been returned with both
\* pools empty, its last source IP 223.255.0.254.
C15_Witness ==
    /\ gen.pc = "done"
    /\ gen.pass_nets = <<>> /\ gen.fail_nets = <<>>
    /\ Len(gen.records) = 3
    /\ gen.rec.source_ip.octets = <<223, 255, 0, 254>>

\* C16: every record has the disposition "none", whatever its mode and its
\* dkim and spf results are.
C16_DispositionNone ==
    \A r \in Recs : r.disposition = "none"

\* C16 witness: a returned document holds a fail-mode record, a pass-mode
\* record whose results are both "pass" and a pass-mode record with one
\* "fail".
C16_Witness ==
    /\ gen.pc = "done"
    /\ \E r \in Recs : r.mode = "fail"
    /\ \E r \in Recs : r.mode = "pass" /\ r.dkim = "pass" /\ r.spf = "pass"
    /\ \E r \in Recs : r.mode = "pass" /\ "fail" \in {r.dkim, r.spf}

\* C17: in every record the dkim and spf results of auth_results are those
\* of policy_evaluated, and header_from and the two domains of auth_results
\* are the report domain the document was asked for.
C17_AuthResultsMirror ==
    \A r \in Recs :
        /\ r.ar_dkim_result = r.dkim
        /\ r.ar_spf_result = r.spf
        /\ r.header_from = gen.report_domain
        /\ r.ar_dkim_domain = gen.report_domain
        /\ r.ar_spf_domain = gen.report_domain

\* C17 witness: a returned document for sub.example.org holds a record with
\* dkim "fail" and spf "pass" and a record with both "fail".
C17_Witness ==
    /\ gen.pc = "done"
    /\ gen.report_domain = "sub.example.org"
    /\ \E r \in Recs : r.dkim = "fail" /\ r.spf = "pass"
    /\ \E r \in Recs : r.dkim = "fail" /\ r.spf = "fail"

\* ------------------------------------------------------------------ claims on the parser
Malformed(p) == p.pfx \in {"ip4:", "ip6:"} /\ ~ip_network(p).ok

\* The networks of the well-formed ip4:/ip6: words, in the record's order.
WellFormedNets(toks) ==
    LET good == SelectSeq(toks, LAMBDA p : p.pfx \in {"ip4:", "ip6:"} /\ ip_network(p).ok)
    IN  [i \in 1..Len(good) |-> ip_network(good[i]).net]

\* The names of the include: words, in the record's order.
IncludeNames(toks) ==
    LET incs == SelectSeq(toks, LAMBDA p : p.pfx = "include:")
    IN  [i \in 1..Len(incs) |-> incs[i].name]

\* C19: of an SPF record _parse_spf_line returns the networks of all its
\* well-formed ip4:/ip6: words and the names of all its include: words, those
\* after a malformed ip4:/ip6: word too; a malformed word adds nothing.
C19_MalformedTokenDropped ==
    (parse.pc = "done" /\ Lower(parse.line.head) = "v=spf1") =>
        /\ parse.out.nets = WellFormedNets(parse.line.toks)
        /\ parse.out.includes = IncludeNames(parse.line.toks)

\* C19 witness: a record whose first word is a malformed ip4: word, followed
\* by a well-formed network and an include, has been parsed.
C19_Witness ==
    /\ parse.pc = "done"
    /\ Len(parse.line.toks) = 3
    /\ Malformed(parse.line.toks[1])
    /\ parse.line.toks[2] = Ip6Addr(1)
    /\ parse.line.toks[3] = IncludeOf("b")
    /\ Len(parse.out.nets) = 1
    /\ parse.out.includes = <<"b">>

\* ------------------------------------------------------------------ more claims on the resolver
\* C20: a pass of the loop that expands nothing leaves the visited set as it
\* was; every entry of the frontier whose name is not empty and not visited
\* and whose depth is at most max_depth is expanded when it is popped,
\* whatever was skipped before; and the visited set is the set of the
\* expanded domains, without the empty string.
C20_SkipLeavesVisited ==
    /\ [][(rpc = "loop" /\ Len(log') = Len(log)) => visited' = visited]_vars
    /\ [](rpc = "loop" =>
            \A i \in 1..Len(stack) :
                (stack[i].dom # "" /\ stack[i].dom \notin visited
                    /\ stack[i].depth <= max_depth) =>
                    /\ Body(i).log = Append(log, stack[i])
                    /\ Body(i).visited = visited \cup {stack[i].dom})
    /\ [](visited = LogDoms /\ "" \notin visited)

\* C20 witness: a domain expanded at depth max_depth includes c, so c was
\* pushed one level too deep; that entry has been popped and skipped with c
\* not visited, c is still not visited, and an entry for c at an allowed
\* depth is on the frontier.
C20_Witness ==
    /\ rpc = "loop"
    /\ "c" \notin visited
    /\ \E k \in 1..Len(log) : log[k].depth = max_depth /\ "c" \in IncludesOf(log[k].dom)
    /\ \A i \in 1..Len(stack) : stack[i].dom = "c" => stack[i].depth <= max_depth
    /\ \E i \in 1..Len(stack) : stack[i].dom = "c"

====
